---- MODULE Spec2Model ----
(***************************************************************************)
(* LLM Ops Watchtower: the /chat request pipeline of app/main.py together  *)
(* with the security analyzer of app/security.py and the instruments of    *)
(* app/observability.py.                                                   *)
(*                                                                         *)
(* chat is an `async def` handler that contains no await: once the event   *)
(* loop has entered it, the handler runs to its return or raise before any *)
(* other handler runs, the call of time.sleep and the synchronous gateway  *)
(* call included.  The variable loop holds the request whose handler is    *)
(* on the event loop (NoRequest when the loop is free).                    *)
(*                                                                         *)
(* Only the calls the handler itself makes on spans, instruments and       *)
(* loggers are modelled; what the OpenTelemetry SDK adds on its own (the   *)
(* exception event a span records when an exception leaves its `with`) is  *)
(* outside the sources.                                                    *)
(***************************************************************************)
EXTENDS Integers, Sequences, FiniteSets, TLC

\* ------------------------------------------------------------------ bounds
\* The gateway reports token counts in 0..MaxTokens.
MaxTokens == 1

\* The requests of a run, numbered in the order their handlers become ready.
Requests == {1, 2}
NoRequest == 0

\* ------------------------------------------------------- configuration
\* Values the three environment variables read by chat may hold.
FailureModeValues == {"unset", "True"}
SlowModeValues == {"unset", "TRUE"}
DelayValues == {"unset", "5", "-5", "abc"}

\* str.lower() on the strings of the model.
Lower(s) ==
    CASE s = "True" -> "true"
      [] s = "TRUE" -> "true"
      [] OTHER -> s

\* os.getenv(name, default)
GetEnv(v, default) == IF v = "unset" THEN default ELSE v

\* int(s): ok is FALSE where Python raises ValueError.
ParseInt(s) ==
    CASE s = "1000" -> [ok |-> TRUE, val |-> 1000]
      [] s = "5" -> [ok |-> TRUE, val |-> 5]
      [] s = "0" -> [ok |-> TRUE, val |-> 0]
      [] s = "-5" -> [ok |-> TRUE, val |-> 0 - 5]
      [] OTHER -> [ok |-> FALSE, val |-> 0]

\* Per-request query parameters: Optional[bool].
OptBool == {"absent", "true", "false"}

\* Python truthiness of an Optional[bool].
Truthy(o) == o = "true"

\* The flag compared without lower(): 'True' does not count as set.
ResolveSimulateFailure_CaseSensitive(override, envval) ==
    Truthy(override) \/ GetEnv(envval, "false") = "true"

\* simulate_failure or os.getenv('ENABLE_FAILURE_MODE', 'false').lower() == 'true'
ResolveSimulateFailure(override, envval) ==
    Truthy(override) \/ Lower(GetEnv(envval, "false")) = "true"

\* An explicit per-request value replaces the process-wide flag.
ResolveSlowMode_OverrideWins(override, envval) ==
    IF override = "absent"
    THEN Lower(GetEnv(envval, "false")) = "true"
    ELSE Truthy(override)

\* slow_mode or os.getenv('ENABLE_SLOW_MODE', 'false').lower() == 'true'
ResolveSlowMode(override, envval) ==
    Truthy(override) \/ Lower(GetEnv(envval, "false")) = "true"

\* ----------------------------------------------------- security analyzer
\* A message is a sequence of whitespace-separated words.  For each word the
\* tables give what the patterns of security.py find in that word; for the
\* words below no pattern matches across a word boundary.
PiiCategories == {"email", "ssn", "credit_card", "phone", "ip_address"}

Words == {"hello", "ignore previous instructions", "a@b.com", "c@d.com",
          "123-45-6789", "10.0.0.1", "555-123-4567", "a@10.0.0.1.com",
          "4111111111111111"}

\* len(re.findall(PII_PATTERNS[cat], word, re.IGNORECASE))
WordMatches(word, cat) ==
    CASE word \in {"a@b.com", "c@d.com", "a@10.0.0.1.com"} /\ cat = "email" -> 1
      [] word = "a@10.0.0.1.com" /\ cat = "ip_address" -> 1
      [] word = "4111111111111111" /\ cat = "credit_card" -> 1
      [] word = "123-45-6789" /\ cat = "ssn" -> 1
      [] word = "10.0.0.1" /\ cat = "ip_address" -> 1
      [] word = "555-123-4567" /\ cat = "phone" -> 1
      [] OTHER -> 0

\* any(re.search(p, word) for p in PROMPT_INJECTION_PATTERNS)
WordInjection(word) == word = "ignore previous instructions"

RECURSIVE CountMatches(_, _)
CountMatches(msg, cat) ==
    IF msg = <<>> THEN 0
    ELSE WordMatches(Head(msg), cat) + CountMatches(Tail(msg), cat)

check_prompt_injection(msg) == \E i \in 1..Len(msg) : WordInjection(msg[i])

\* The dictionary with a key for every category.
detect_pii_AllKeys(msg) ==
    [cat \in PiiCategories |-> CountMatches(msg, cat)]

\* The dictionary holds a key only for a category with at least one match.
detect_pii(msg) ==
    [cat \in {c \in PiiCategories : CountMatches(msg, c) > 0} |->
        CountMatches(msg, cat)]

\* security.py 36: the default of max_length; 42: the characters kept at
\* each end.
DefaultMaxLength == 50
PreviewKeep == 20

\* A text is the sequence of its characters' code points.
Dot == 46
Ellipsis == <<Dot, Dot, Dot>>

Min(a, b) == IF a < b THEN a ELSE b
Max(a, b) == IF a > b THEN a ELSE b

\* s[:k] and s[-k:] for k > 0
SliceTo(s, k) == SubSeq(s, 1, Min(k, Len(s)))
SliceLast(s, k) == SubSeq(s, Max(1, Len(s) - k + 1), Len(s))

\* The preview that also shortens a text of exactly max_length characters.
redact_preview_Strict(prompt, max_length) ==
    IF Len(prompt) < max_length THEN prompt
    ELSE SliceTo(prompt, PreviewKeep) \o Ellipsis \o SliceLast(prompt, PreviewKeep)

\* security.py 36-43
redact_preview(prompt, max_length) ==
    IF Len(prompt) <= max_length THEN prompt
    ELSE SliceTo(prompt, PreviewKeep) \o Ellipsis \o SliceLast(prompt, PreviewKeep)

\* The code points of the characters of a word.
WordChars(word) ==
    CASE word = "hello" ->
            <<104, 101, 108, 108, 111>>
      [] word = "ignore previous instructions" ->
            <<105, 103, 110, 111, 114, 101, 32, 112, 114, 101, 118, 105, 111, 117, 115, 32, 105, 110, 115, 116, 114, 117, 99, 116, 105, 111, 110, 115>>
      [] word = "a@b.com" ->
            <<97, 64, 98, 46, 99, 111, 109>>
      [] word = "c@d.com" ->
            <<99, 64, 100, 46, 99, 111, 109>>
      [] word = "123-45-6789" ->
            <<49, 50, 51, 45, 52, 53, 45, 54, 55, 56, 57>>
      [] word = "10.0.0.1" ->
            <<49, 48, 46, 48, 46, 48, 46, 49>>
      [] word = "555-123-4567" ->
            <<53, 53, 53, 45, 49, 50, 51, 45, 52, 53, 54, 55>>
      [] word = "a@10.0.0.1.com" ->
            <<97, 64, 49, 48, 46, 48, 46, 48, 46, 49, 46, 99, 111, 109>>
      [] word = "4111111111111111" ->
            <<52, 49, 49, 49, 49, 49, 49, 49, 49, 49, 49, 49, 49, 49, 49, 49>>

\* The text of a message: its words with one space between them.
RECURSIVE TextOf(_)
TextOf(msg) ==
    IF msg = <<>> THEN <<>>
    ELSE IF Len(msg) = 1 THEN WordChars(msg[1])
    ELSE WordChars(msg[1]) \o <<32>> \o TextOf(Tail(msg))

\* SHA-256 taken as collision free: the digest stands for the text.
hash_prompt(msg) == <<"sha256", msg>>

analyze_security(msg) ==
    [prompt_injection |-> check_prompt_injection(msg),
     pii_detected |-> DOMAIN detect_pii(msg) # {},
     pii_types |-> detect_pii(msg),
     prompt_hash |-> hash_prompt(msg),
     prompt_preview |-> redact_preview(TextOf(msg), DefaultMaxLength)]

\* main.py 136-139: the part of a finding written to the security.check span.
SecurityAttrs(res) ==
    [prompt_injection |-> res.prompt_injection,
     pii_detected |-> res.pii_detected,
     pii_types |-> res.pii_types,
     prompt_hash |-> res.prompt_hash]

\* The messages clients send: one with an injection phrase and no PII, one
\* with three PII matches in two categories and no injection phrase.
Messages == { <<"hello", "ignore previous instructions">>,
              <<"a@b.com", "c@d.com", "123-45-6789">> }

NoFinding == analyze_security(<<>>)

RECURSIVE SumOver(_, _)
SumOver(f, S) ==
    IF S = {} THEN 0
    ELSE LET x == CHOOSE y \in S : TRUE IN f[x] + SumOver(f, S \ {x})

\* ------------------------------------------------------------- telemetry
Counters == {"request_count", "tokens_in", "tokens_out", "failures",
             "prompt_injection_count", "pii_leak_count"}
Histograms == {"request_latency", "llm_latency"}
Instruments == Counters \cup Histograms

\* Attribute sets used by the handler: {} on every instrument, and
\* {'pii_type': category} on pii_leak_count.
NoAttr == "none"
AttrSets(inst) ==
    IF inst = "pii_leak_count" THEN {NoAttr} \cup PiiCategories ELSE {NoAttr}

\* create_metrics: every instrument exists and starts empty.
create_metrics == [i \in Instruments |-> [a \in AttrSets(i) |-> 0]]

\* One call instrument.add(amount, attrs) / instrument.record(value, attrs).
\* A counter sums the amounts, a histogram counts the recorded values.
Call(stage, inst, amount, attr) ==
    [stage |-> stage, inst |-> inst, amount |-> amount, attr |-> attr]

RECURSIVE Apply(_, _)
Apply(m, cs) ==
    IF cs = <<>> THEN m
    ELSE LET c == Head(cs)
             inc == IF c.inst \in Histograms THEN 1 ELSE c.amount
         IN Apply([m EXCEPT ![c.inst][c.attr] = @ + inc], Tail(cs))

\* ------------------------------------------------------------------ state
VARIABLES
    app,            \* "starting" before lifespan's startup has run, then "serving"
    env,            \* the process environment
    gemini_client,  \* TRUE iff the global client is not None
    loop,           \* the request whose handler occupies the event loop
    next_uuid,      \* source of uuid4 values
    app_metrics,    \* the shared instruments
    pc,             \* where each request is
    input,          \* message and query parameters of each request
    local,          \* the handler's local variables
    spans,          \* the spans each request has opened
    calls,          \* the instrument calls each request has made, in order
    logs,           \* the log records each request has produced, in order
    outcome,        \* what the caller of each request got
    startup_log,    \* the log records of lifespan's startup
    arg,            \* the argument of a function applied on its own
    result          \* the value the function returned for arg

vars == <<app, env, gemini_client, loop, next_uuid, app_metrics, pc, input,
          local, spans, calls, logs, outcome, startup_log, arg, result>>

\* The variables of the request pipeline.
pipeline == <<app, env, gemini_client, loop, next_uuid, app_metrics, pc, input,
              local, spans, calls, logs, outcome, startup_log>>

\* No function has been applied on its own.
NoValue == [kind |-> "none"]

\* A span: not yet started, open (inside its `with` block) or closed; its
\* status, the exceptions recorded on it and the attributes written to it.
NoSpan(noattrs) ==
    [state |-> "none", status |-> "unset", exc |-> 0, written |-> FALSE,
     attrs |-> noattrs]

NoRootAttrs ==
    [request_id |-> 0, tokens_in |-> 0, tokens_out |-> 0,
     prompt_injection |-> FALSE, pii_detected |-> FALSE,
     prompt_hash |-> hash_prompt(<<>>)]

NoLlmAttrs == [tokens_in |-> 0, tokens_out |-> 0]

NoSpans ==
    [root |-> NoSpan(NoRootAttrs),
     security |-> NoSpan(SecurityAttrs(NoFinding)),
     llm |-> NoSpan(NoLlmAttrs)]

NoLocal ==
    [request_id |-> 0,
     security_result |-> NoFinding,
     slow_mode_delay |-> 0,
     slept |-> <<>>,
     tokens_in |-> 0,
     tokens_out |-> 0,
     gateway_calls |-> <<>>,
     exc |-> "none",
     exc_status |-> 0,
     exc_detail |-> <<>>]

NoOutcome == [status |-> 0, detail |-> <<>>, request_id |-> 0]

\* The state of the service after construction.
PipelineInit ==
    /\ app = "starting"
    /\ env \in [failure_mode : FailureModeValues,
                slow_mode : SlowModeValues,
                delay_ms : DelayValues]
    /\ gemini_client = FALSE
    /\ loop = NoRequest
    /\ next_uuid = 1
    /\ app_metrics = create_metrics
    /\ pc = [r \in Requests |-> "idle"]
    /\ input = [r \in Requests |->
                   [message |-> <<>>, slow_mode |-> "absent",
                    simulate_failure |-> "absent"]]
    /\ local = [r \in Requests |-> NoLocal]
    /\ spans = [r \in Requests |-> NoSpans]
    /\ calls = [r \in Requests |-> <<>>]
    /\ logs = [r \in Requests |-> <<>>]
    /\ outcome = [r \in Requests |-> NoOutcome]
    /\ startup_log = <<>>

Init ==
    /\ PipelineInit
    /\ arg = NoValue
    /\ result = NoValue

\* ---------------------------------------------------------------- helpers
Terminal == {"Completed", "FailedSimulated", "FailedGeneration",
             "FailedUnavailable", "FailedUnexpected"}

\* Instrument calls that replace what the other requests have added: the
\* instruments hold the contributions of r only.
Emit_Overwrite(r, cs) ==
    /\ calls' = [calls EXCEPT ![r] = @ \o cs]
    /\ app_metrics' = Apply(create_metrics, calls[r] \o cs)

\* The handler of r makes the instrument calls cs, in order.
Emit(r, cs) ==
    /\ calls' = [calls EXCEPT ![r] = @ \o cs]
    /\ app_metrics' = Apply(app_metrics, cs)

\* A log record of a request: every record of the handler and of the gateway
\* carries the request id it was given.
LogRecord(logger, level, msg, request_id) ==
    [logger |-> logger, level |-> level, msg |-> msg, request_id |-> request_id]

\* main.py 230-245: the record of a completed request carries the finding.
CompletionRecord(request_id, res) ==
    [logger |-> "app.main", level |-> "INFO",
     msg |-> "Request completed successfully", request_id |-> request_id,
     prompt_injection |-> res.prompt_injection,
     pii_detected |-> res.pii_detected,
     pii_types |-> res.pii_types,
     prompt_hash |-> res.prompt_hash,
     prompt_preview |-> res.prompt_preview]

Log(r, recs) == logs' = [logs EXCEPT ![r] = @ \o recs]

\* The answer is sent but the handler goes on running where it was.
Leave_KeepRunning(r, state, status, detail) ==
    /\ outcome' = [outcome EXCEPT ![r] =
                      [status |-> status, detail |-> detail,
                       request_id |-> IF status = 200
                                      THEN local[r].request_id ELSE 0]]
    /\ UNCHANGED <<pc, loop>>

\* The handler of r returns or raises to the framework: the caller gets its
\* answer and the event loop is free again.
Leave(r, state, status, detail) ==
    /\ pc' = [pc EXCEPT ![r] = state]
    /\ outcome' = [outcome EXCEPT ![r] =
                      [status |-> status, detail |-> detail,
                       request_id |-> IF status = 200
                                      THEN local[r].request_id ELSE 0]]
    /\ loop' = NoRequest

Goto(r, state) ==
    /\ pc' = [pc EXCEPT ![r] = state]
    /\ UNCHANGED <<outcome, loop>>

Running(r, state) == loop = r /\ pc[r] = state

\* PII_PATTERNS.items(): the categories in the order the dictionary lists them.
PiiOrder == <<"email", "ssn", "credit_card", "phone", "ip_address">>

\* The undimensioned increment taken as the sum of the per-category counts.
PiiTotalAmount_Sum(pii_types) == SumOver(pii_types, DOMAIN pii_types)

\* main.py 147: the amount added to pii_leak_count with no attributes when
\* the finding has PII.
PiiTotalAmount(pii_types) == 1

\* main.py 142-149: the instrument calls of the security stage.
SecurityCalls(res) ==
    LET inj == IF res.prompt_injection
               THEN <<Call("SecurityCheck", "prompt_injection_count", 1, NoAttr)>>
               ELSE <<>>
        present == SelectSeq(PiiOrder, LAMBDA c : c \in DOMAIN res.pii_types)
        percat == [i \in 1..Len(present) |->
                      Call("SecurityCheck", "pii_leak_count",
                           res.pii_types[present[i]], present[i])]
        pii == IF res.pii_detected
               THEN <<Call("SecurityCheck", "pii_leak_count",
                           PiiTotalAmount(res.pii_types), NoAttr)>> \o percat
               ELSE <<>>
    IN inj \o pii

\* The two token counts exchanged.
GenerateCalls_Swapped(a, b) ==
    <<Call("Generate", "llm_latency", 0, NoAttr),
      Call("Generate", "tokens_in", b, NoAttr),
      Call("Generate", "tokens_out", a, NoAttr)>>

\* main.py 186-194: the instrument calls after generate has returned (a, b).
GenerateCalls(a, b) ==
    <<Call("Generate", "llm_latency", 0, NoAttr),
      Call("Generate", "tokens_in", a, NoAttr),
      Call("Generate", "tokens_out", b, NoAttr)>>

\* The latency of the failed call recorded as well.
GatewayFailCalls_WithLatency ==
    <<Call("Generate", "llm_latency", 0, NoAttr),
      Call("Generate", "failures", 1, NoAttr)>>

\* main.py 199: the instrument calls of the handler of a gateway failure.
GatewayFailCalls == <<Call("Generate", "failures", 1, NoAttr)>>

\* llm.py 114 and main.py 200: the log records of a gateway failure.
GatewayFailLogs(request_id) ==
    <<LogRecord("app.llm", "ERROR", "LLM request failed", request_id),
      LogRecord("app.main", "ERROR", "LLM generation failed", request_id)>>

\* main.py 160-165: nothing is logged when the client is missing.
UnavailableLogs == <<>>

\* main.py 163
UnavailableStatus == 503

\* The HTTPException re-raised without counting it.
ExceptHTTPCalls_None == <<>>

\* main.py 255
ExceptHTTPCalls == <<Call("except HTTPException", "failures", 1, NoAttr)>>

\* The unexpected error logged without counting it.
ExceptOtherCalls_None == <<>>

\* main.py 260
ExceptOtherCalls == <<Call("except Exception", "failures", 1, NoAttr)>>

\* main.py 224-227
CompleteCalls ==
    <<Call("Completed", "request_count", 1, NoAttr),
      Call("Completed", "request_latency", 0, NoAttr)>>

\* ---------------------------------------------------------------- actions
\* main.py 46-53: what lifespan logs when GeminiClient() has returned a
\* client (initialized) and when it has raised.
StartupLog(initialized) ==
    <<[logger |-> "app.main", level |-> "INFO",
       msg |-> "Starting LLM Ops Watchtower application"],
      IF initialized
      THEN [logger |-> "app.main", level |-> "INFO",
            msg |-> "Gemini client initialized successfully"]
      ELSE [logger |-> "app.main", level |-> "ERROR",
            msg |-> "Failed to initialize Gemini client"]>>

\* lifespan: GeminiClient() returns a client, or raises (no project
\* configured, vertexai.init fails) and the global stays None; the
\* application starts either way.
lifespan ==
    /\ app = "starting"
    /\ \E initialized \in BOOLEAN :
          /\ gemini_client' = initialized
          /\ startup_log' = StartupLog(initialized)
    /\ app' = "serving"
    /\ UNCHANGED <<arg, result, env, loop, next_uuid, app_metrics, pc, input, local, spans,
                   calls, logs, outcome>>

\* A POST /chat has been read and the call of its handler is ready to run on
\* the event loop; requests are numbered in the order this happens.
Arrive(r) ==
    /\ app = "serving"
    /\ pc[r] = "idle"
    /\ \A q \in Requests : q < r => pc[q] # "idle"
    /\ \E m \in Messages, sm \in OptBool, sf \in OptBool :
          input' = [input EXCEPT ![r] =
                       [message |-> m, slow_mode |-> sm, simulate_failure |-> sf]]
    /\ pc' = [pc EXCEPT ![r] = "pending"]
    /\ UNCHANGED <<startup_log, arg, result, app, env, gemini_client, loop, next_uuid, app_metrics, local,
                   spans, calls, logs, outcome>>

\* The handler entered with an identifier that is not fresh.
Start_StaleId(r) ==
    /\ pc[r] = "pending"
    /\ loop = NoRequest
    /\ \A q \in Requests : q < r => pc[q] # "pending"
    /\ loop' = r
    /\ local' = [local EXCEPT ![r].request_id = 1]
    /\ next_uuid' = next_uuid + 1
    /\ pc' = [pc EXCEPT ![r] = "FaultGate"]
    /\ UNCHANGED <<startup_log, arg, result, app, env, gemini_client, app_metrics, input, spans, calls,
                   logs, outcome>>

\* main.py 120-121: the event loop, free, enters the handler that has been
\* ready the longest.
Start(r) ==
    /\ pc[r] = "pending"
    /\ loop = NoRequest
    /\ \A q \in Requests : q < r => pc[q] # "pending"
    /\ loop' = r
    /\ local' = [local EXCEPT ![r].request_id = next_uuid]
    /\ next_uuid' = next_uuid + 1
    /\ pc' = [pc EXCEPT ![r] = "FaultGate"]
    /\ UNCHANGED <<startup_log, arg, result, app, env, gemini_client, app_metrics, input, spans, calls,
                   logs, outcome>>

\* The failure counted and logged, but the raise left out.
FaultGate_NoRaise(r) ==
    /\ Running(r, "FaultGate")
    /\ IF ResolveSimulateFailure(input[r].simulate_failure, env.failure_mode)
       THEN /\ Log(r, <<LogRecord("app.main", "WARNING", "Simulating failure", local[r].request_id)>>)
            /\ Emit(r, <<Call("FaultGate", "failures", 1, NoAttr)>>)
       ELSE UNCHANGED <<logs, calls, app_metrics>>
    /\ Goto(r, "RootSpan")
    /\ UNCHANGED <<startup_log, arg, result, app, env, gemini_client, next_uuid, input, local, spans>>

\* The client checked first: without a client the request is answered 503
\* before any other stage has run.
FaultGate_ClientFirst(r) ==
    /\ Running(r, "FaultGate")
    /\ IF ~gemini_client
       THEN /\ Leave(r, "FailedUnavailable", UnavailableStatus,
                     <<"LLM service is not available">>)
            /\ UNCHANGED <<logs, calls, app_metrics>>
       ELSE IF ResolveSimulateFailure(input[r].simulate_failure, env.failure_mode)
       THEN /\ Log(r, <<LogRecord("app.main", "WARNING", "Simulating failure", local[r].request_id)>>)
            /\ Emit(r, <<Call("FaultGate", "failures", 1, NoAttr)>>)
            /\ Leave(r, "FailedSimulated", 500, <<"Simulated failure for testing">>)
       ELSE /\ Goto(r, "RootSpan")
            /\ UNCHANGED <<logs, calls, app_metrics>>
    /\ UNCHANGED <<startup_log, arg, result, app, env, gemini_client, next_uuid, input, local, spans>>

\* main.py 123-127
FaultGate(r) ==
    /\ Running(r, "FaultGate")
    /\ IF ResolveSimulateFailure(input[r].simulate_failure, env.failure_mode)
       THEN /\ Log(r, <<LogRecord("app.main", "WARNING", "Simulating failure", local[r].request_id)>>)
            /\ Emit(r, <<Call("FaultGate", "failures", 1, NoAttr)>>)
            /\ Leave(r, "FailedSimulated", 500, <<"Simulated failure for testing">>)
       ELSE /\ Goto(r, "RootSpan")
            /\ UNCHANGED <<logs, calls, app_metrics>>
    /\ UNCHANGED <<startup_log, arg, result, app, env, gemini_client, next_uuid, input, local, spans>>

\* main.py 131
RootSpan(r) ==
    /\ Running(r, "RootSpan")
    /\ spans' = [spans EXCEPT ![r].root.state = "open"]
    /\ Goto(r, "SecurityCheck")
    /\ UNCHANGED <<startup_log, arg, result, app, env, gemini_client, next_uuid, app_metrics, input, local,
                   calls, logs>>

\* main.py 133
SecurityOpen(r) ==
    /\ Running(r, "SecurityCheck")
    /\ spans' = [spans EXCEPT ![r].security.state = "open"]
    /\ Goto(r, "Analyze")
    /\ UNCHANGED <<startup_log, arg, result, app, env, gemini_client, next_uuid, app_metrics, input, local,
                   calls, logs>>

\* An analyzer that keeps the finding of the text it saw first and returns
\* it for every later text.
Analyze_Cached(r) ==
    /\ Running(r, "Analyze")
    /\ LET res == IF \E q \in Requests : spans[q].security.state = "closed"
                  THEN local[CHOOSE q \in Requests :
                                spans[q].security.state = "closed"].security_result
                  ELSE analyze_security(input[r].message) IN
          /\ local' = [local EXCEPT ![r].security_result = res]
          /\ spans' = [spans EXCEPT ![r].security =
                          [@ EXCEPT !.written = TRUE, !.attrs = SecurityAttrs(res),
                                    !.state = "closed"]]
          /\ Emit(r, SecurityCalls(res))
    /\ Goto(r, "SlowGate")
    /\ UNCHANGED <<startup_log, arg, result, app, env, gemini_client, next_uuid, input, logs>>

\* main.py 134-149, and the end of the security.check block
Analyze(r) ==
    /\ Running(r, "Analyze")
    /\ LET res == analyze_security(input[r].message) IN
          /\ local' = [local EXCEPT ![r].security_result = res]
          /\ spans' = [spans EXCEPT ![r].security =
                          [@ EXCEPT !.written = TRUE, !.attrs = SecurityAttrs(res),
                                    !.state = "closed"]]
          /\ Emit(r, SecurityCalls(res))
    /\ Goto(r, "SlowGate")
    /\ UNCHANGED <<startup_log, arg, result, app, env, gemini_client, next_uuid, input, logs>>

\* main.py 151-156, up to the call of time.sleep.  int() raises ValueError
\* on a delay that is not an integer: the exception leaves the chat.request
\* block and reaches `except Exception`.
SlowGate(r) ==
    /\ Running(r, "SlowGate")
    /\ IF ResolveSlowMode(input[r].slow_mode, env.slow_mode)
       THEN LET p == ParseInt(GetEnv(env.delay_ms, "1000")) IN
            IF p.ok
            THEN /\ local' = [local EXCEPT ![r].slow_mode_delay = p.val]
                 /\ Goto(r, IF p.val > 0 THEN "Sleeping" ELSE "CheckClient")
                 /\ UNCHANGED spans
            ELSE /\ local' = [local EXCEPT ![r].exc = "ValueError",
                                           ![r].exc_detail = <<"invalid literal for int()", env.delay_ms>>]
                 /\ spans' = [spans EXCEPT ![r].root.state = "closed"]
                 /\ Goto(r, "ExceptOther")
       ELSE /\ local' = [local EXCEPT ![r].slow_mode_delay = 0]
            /\ Goto(r, "CheckClient")
            /\ UNCHANGED spans
    /\ UNCHANGED <<startup_log, arg, result, app, env, gemini_client, next_uuid, app_metrics, input, calls,
                   logs>>

\* The end of the sleep without the log record.
Wake_NoLog(r) ==
    /\ Running(r, "Sleeping")
    /\ local' = [local EXCEPT ![r].slept = Append(@, local[r].slow_mode_delay)]
    /\ Goto(r, "CheckClient")
    /\ UNCHANGED <<startup_log, arg, result, app, env, gemini_client, next_uuid, app_metrics, input, spans,
                   calls, logs>>

\* main.py 156-157: time.sleep returns, the delay is logged.
Wake(r) ==
    /\ Running(r, "Sleeping")
    /\ local' = [local EXCEPT ![r].slept = Append(@, local[r].slow_mode_delay)]
    /\ Log(r, <<LogRecord("app.main", "INFO", "Slow mode delay", local[r].request_id)>>)
    /\ Goto(r, "CheckClient")
    /\ UNCHANGED <<startup_log, arg, result, app, env, gemini_client, next_uuid, app_metrics, input, spans,
                   calls>>

\* A missing client reported as an internal error, status 500.
CheckClient_InternalError(r) ==
    /\ Running(r, "CheckClient")
    /\ IF ~gemini_client
       THEN /\ spans' = [spans EXCEPT ![r].root.status = "error",
                                      ![r].root.state = "closed"]
            /\ local' = [local EXCEPT ![r].exc = "HTTPException",
                                      ![r].exc_status = 500,
                                      ![r].exc_detail = <<"LLM service is not available">>]
            /\ Log(r, UnavailableLogs)
            /\ Goto(r, "ExceptHTTP")
       ELSE /\ Goto(r, "Generate")
            /\ UNCHANGED <<spans, local, logs>>
    /\ UNCHANGED <<startup_log, arg, result, app, env, gemini_client, next_uuid, app_metrics, input, calls>>

\* main.py 159-170
CheckClient(r) ==
    /\ Running(r, "CheckClient")
    /\ IF ~gemini_client
       THEN /\ spans' = [spans EXCEPT ![r].root.status = "error",
                                      ![r].root.state = "closed"]
            /\ local' = [local EXCEPT ![r].exc = "HTTPException",
                                      ![r].exc_status = UnavailableStatus,
                                      ![r].exc_detail = <<"LLM service is not available">>]
            /\ Log(r, UnavailableLogs)
            /\ Goto(r, "ExceptHTTP")
       ELSE /\ Goto(r, "Generate")
            /\ UNCHANGED <<spans, local, logs>>
    /\ UNCHANGED <<startup_log, arg, result, app, env, gemini_client, next_uuid, app_metrics, input, calls>>

\* main.py 172-177: the llm.request span is opened and the gateway is called.
Generate(r) ==
    /\ Running(r, "Generate")
    /\ spans' = [spans EXCEPT ![r].llm.state = "open"]
    /\ local' = [local EXCEPT ![r].gateway_calls =
                    Append(@, [prompt |-> input[r].message,
                               request_id |-> local[r].request_id])]
    /\ Goto(r, "InGateway")
    /\ UNCHANGED <<startup_log, arg, result, app, env, gemini_client, next_uuid, app_metrics, input, calls,
                   logs>>

\* llm.py 99-110 and main.py 174-194: generate returns token counts (a, b).
GatewayReturn(r) ==
    /\ Running(r, "InGateway")
    /\ \E a \in 0..MaxTokens, b \in 0..MaxTokens :
          /\ local' = [local EXCEPT ![r].tokens_in = a, ![r].tokens_out = b]
          /\ spans' = [spans EXCEPT ![r].llm =
                          [@ EXCEPT !.written = TRUE,
                                    !.attrs = [tokens_in |-> a, tokens_out |-> b],
                                    !.state = "closed"]]
          /\ Emit(r, GenerateCalls(a, b))
    /\ Log(r, <<LogRecord("app.llm", "INFO", "LLM request completed", local[r].request_id)>>)
    /\ Goto(r, "Completing")
    /\ UNCHANGED <<startup_log, arg, result, app, env, gemini_client, next_uuid, input>>

\* A failed generation that leaves the llm.request span open.
GatewayFail_SpanOpen(r) ==
    /\ Running(r, "InGateway")
    /\ spans' = [spans EXCEPT ![r].llm =
                    [@ EXCEPT !.exc = @ + 1, !.status = "error"],
                              ![r].root.state = "closed"]
    /\ Emit(r, GatewayFailCalls)
    /\ Log(r, GatewayFailLogs(local[r].request_id))
    /\ local' = [local EXCEPT ![r].exc = "HTTPException",
                              ![r].exc_status = 500,
                              ![r].exc_detail = <<"LLM generation failed", "backend error">>]
    /\ Goto(r, "ExceptHTTP")
    /\ UNCHANGED <<startup_log, arg, result, app, env, gemini_client, next_uuid, input>>

\* llm.py 112-125 and main.py 196-205: generate raises; the handler wraps the
\* error in an HTTPException that leaves both span blocks.
GatewayFail(r) ==
    /\ Running(r, "InGateway")
    /\ spans' = [spans EXCEPT ![r].llm =
                    [@ EXCEPT !.exc = @ + 1, !.status = "error",
                              !.state = "closed"],
                              ![r].root.state = "closed"]
    /\ Emit(r, GatewayFailCalls)
    /\ Log(r, GatewayFailLogs(local[r].request_id))
    /\ local' = [local EXCEPT ![r].exc = "HTTPException",
                              ![r].exc_status = 500,
                              ![r].exc_detail = <<"LLM generation failed", "backend error">>]
    /\ Goto(r, "ExceptHTTP")
    /\ UNCHANGED <<startup_log, arg, result, app, env, gemini_client, next_uuid, input>>

\* main.py 207-251
Complete(r) ==
    /\ Running(r, "Completing")
    /\ spans' = [spans EXCEPT ![r].root =
                    [@ EXCEPT !.written = TRUE,
                              !.attrs =
                                 [request_id |-> local[r].request_id,
                                  tokens_in |-> local[r].tokens_in,
                                  tokens_out |-> local[r].tokens_out,
                                  prompt_injection |-> local[r].security_result.prompt_injection,
                                  pii_detected |-> local[r].security_result.pii_detected,
                                  prompt_hash |-> local[r].security_result.prompt_hash],
                              !.state = "closed"]]
    /\ Emit(r, CompleteCalls)
    /\ Log(r, <<CompletionRecord(local[r].request_id, local[r].security_result)>>)
    /\ Leave(r, "Completed", 200, <<"response_text">>)
    /\ UNCHANGED <<startup_log, arg, result, app, env, gemini_client, next_uuid, input, local>>

\* main.py 253-256
ExceptHTTP(r) ==
    /\ Running(r, "ExceptHTTP")
    /\ Emit(r, ExceptHTTPCalls)
    /\ Leave(r, IF local[r].exc_status = UnavailableStatus THEN "FailedUnavailable"
                ELSE "FailedGeneration",
             local[r].exc_status, local[r].exc_detail)
    /\ UNCHANGED <<startup_log, arg, result, app, env, gemini_client, next_uuid, input, local, spans, logs>>

\* The answer to an unexpected error without the text of the error.
ExceptOther_Generic(r) ==
    /\ Running(r, "ExceptOther")
    /\ Emit(r, ExceptOtherCalls)
    /\ Log(r, <<LogRecord("app.main", "ERROR", "Unexpected error in chat endpoint", local[r].request_id)>>)
    /\ Leave(r, "FailedUnexpected", 500, <<"Internal server error">>)
    /\ UNCHANGED <<startup_log, arg, result, app, env, gemini_client, next_uuid, input, local, spans>>

\* main.py 257-268
ExceptOther(r) ==
    /\ Running(r, "ExceptOther")
    /\ Emit(r, ExceptOtherCalls)
    /\ Log(r, <<LogRecord("app.main", "ERROR", "Unexpected error in chat endpoint", local[r].request_id)>>)
    /\ Leave(r, "FailedUnexpected", 500,
             <<"Internal server error">> \o local[r].exc_detail)
    /\ UNCHANGED <<startup_log, arg, result, app, env, gemini_client, next_uuid, input, local, spans>>

\* The health endpoint reporting a client whatever the global holds.
\* An answer to GET /health that does not read the global.
health_response_AlwaysAvailable ==
    [status |-> "healthy", service |-> "llm-ops-watchtower",
     gemini_available |-> TRUE]

\* main.py 274-278: the body of the answer to GET /health.
health_response ==
    [status |-> "healthy", service |-> "llm-ops-watchtower",
     gemini_available |-> gemini_client]

\* main.py 271-278: the event loop, free, runs the health handler; it reads
\* the global and changes nothing.
health ==
    /\ app = "serving"
    /\ loop = NoRequest
    /\ UNCHANGED vars

Next ==
    \/ lifespan
    \/ health
    \/ \E r \in Requests : Arrive(r)
    \/ \E r \in Requests : Start(r)
    \/ \E r \in Requests : FaultGate(r)
    \/ \E r \in Requests : RootSpan(r)
    \/ \E r \in Requests : SecurityOpen(r)
    \/ \E r \in Requests : Analyze(r)
    \/ \E r \in Requests : SlowGate(r)
    \/ \E r \in Requests : Wake(r)
    \/ \E r \in Requests : CheckClient(r)
    \/ \E r \in Requests : Generate(r)
    \/ \E r \in Requests : GatewayReturn(r)
    \/ \E r \in Requests : GatewayFail(r)
    \/ \E r \in Requests : Complete(r)
    \/ \E r \in Requests : ExceptHTTP(r)
    \/ \E r \in Requests : ExceptOther(r)

Spec == Init /\ [][Next]_vars

\* A step of the handler of r other than the return of the gateway call:
\* the body of chat is straight-line code, every statement of which ends.
HandlerStep(r) ==
    \/ FaultGate(r)
    \/ RootSpan(r)
    \/ SecurityOpen(r)
    \/ Analyze(r)
    \/ SlowGate(r)
    \/ Wake(r)
    \/ CheckClient(r)
    \/ Generate(r)
    \/ Complete(r)
    \/ ExceptHTTP(r)
    \/ ExceptOther(r)

\* The call of generate_content comes back, with a response or an error.
GatewayAnswers(r) == GatewayReturn(r) \/ GatewayFail(r)

\* The service with a handler that keeps executing once it has started and
\* a gateway call that eventually returns or fails.
LiveSpec ==
    /\ Spec
    /\ \A r \in Requests : WF_vars(HandlerStep(r))
    /\ \A r \in Requests : WF_vars(GatewayAnswers(r))

\* ------------------------------------------------- reading the state
\* What request r has contributed to an instrument, from the calls it made.
RECURSIVE SumAmounts(_)
SumAmounts(cs) ==
    IF cs = <<>> THEN 0 ELSE Head(cs).amount + SumAmounts(Tail(cs))

CallsTo(r, inst) == SelectSeq(calls[r], LAMBDA c : c.inst = inst)
CallsWith(r, inst, attr) ==
    SelectSeq(calls[r], LAMBDA c : c.inst = inst /\ c.attr = attr)
CallsIn(r, stage, inst) ==
    SelectSeq(calls[r], LAMBDA c : c.inst = inst /\ c.stage = stage)

Added(r, inst) == SumAmounts(CallsTo(r, inst))
AddedWith(r, inst, attr) == SumAmounts(CallsWith(r, inst, attr))
NumCalls(r, inst) == Len(CallsTo(r, inst))

\* The records of level WARNING or ERROR a request has logged.
FailureLogs(r) == SelectSeq(logs[r], LAMBDA l : l.level \in {"WARNING", "ERROR"})

\* The gateway has reported a failure of its call for r (llm.py 114).
GatewayFailed(r) ==
    \E i \in 1..Len(logs[r]) :
        logs[r][i].logger = "app.llm" /\ logs[r][i].level = "ERROR"

\* The request's inputs as the claims speak of them.
FlagSet(v) == v \in {"true", "True", "TRUE"}
FailureRequested(r) ==
    input[r].simulate_failure = "true" \/ FlagSet(env.failure_mode)
SlowRequested(r) == input[r].slow_mode = "true" \/ FlagSet(env.slow_mode)

Ended(r) == pc[r] \in Terminal

TypeOK ==
    /\ app \in {"starting", "serving"}
    /\ loop \in Requests \cup {NoRequest}
    /\ \A r \in Requests : outcome[r].status \in {0, 200, 500, 503}
    /\ \A r \in Requests : Ended(r) <=> outcome[r].status # 0

\* ------------------------------------------------------------------ C1
\* C1: a request whose simulate-failure decision is true ends with status
\* 500, has added exactly 1 to the failure counter over the whole request
\* and has made no call on the token counters or the generation-latency
\* histogram.
C1_SimulatedFailure ==
    \A r \in Requests :
        Ended(r) /\ FailureRequested(r) =>
            /\ outcome[r].status = 500
            /\ Added(r, "failures") = 1
            /\ NumCalls(r, "failures") = 1
            /\ NumCalls(r, "tokens_in") = 0
            /\ NumCalls(r, "tokens_out") = 0
            /\ NumCalls(r, "llm_latency") = 0

C1_Witness ==
    \E r \in Requests :
        /\ Ended(r)
        /\ input[r].simulate_failure = "true"
        /\ outcome[r].status = 500
        /\ app_metrics["failures"][NoAttr] >= 1

\* ------------------------------------------------------------------ C2
\* C2: a request that completes with the gateway having returned (a, b) has
\* added exactly a to the input-token counter and b to the output-token
\* counter, carries a and b on its root span, has added exactly 1 to the
\* request counter, has recorded one value in each latency histogram and
\* has not touched the failure counter.
C2_Success ==
    \A r \in Requests :
        pc[r] = "Completed" =>
            /\ Added(r, "tokens_in") = local[r].tokens_in
            /\ Added(r, "tokens_out") = local[r].tokens_out
            /\ NumCalls(r, "tokens_in") = 1
            /\ NumCalls(r, "tokens_out") = 1
            /\ spans[r].root.written
            /\ spans[r].root.attrs.tokens_in = local[r].tokens_in
            /\ spans[r].root.attrs.tokens_out = local[r].tokens_out
            /\ Added(r, "request_count") = 1
            /\ NumCalls(r, "request_count") = 1
            /\ NumCalls(r, "request_latency") = 1
            /\ NumCalls(r, "llm_latency") = 1
            /\ NumCalls(r, "failures") = 0

C2_Witness ==
    \E r \in Requests :
        /\ pc[r] = "Completed"
        /\ outcome[r].status = 200
        /\ local[r].tokens_in = 1
        /\ local[r].tokens_out = 0
        /\ app_metrics["tokens_in"][NoAttr] >= 1

\* ------------------------------------------------------------------ C3
\* C3: when the gateway call fails, the llm.request span has the error
\* recorded and is marked errored, the request ends with status 500 and a
\* wrapped message, the failure counter is incremented once in the Generate
\* stage and once by the outer handler (2 in total), and the request
\* counter, the token counters and both latency histograms are untouched.
C3_GenerationFailure ==
    \A r \in Requests :
        Ended(r) /\ GatewayFailed(r) =>
            /\ spans[r].llm.exc = 1
            /\ spans[r].llm.status = "error"
            /\ outcome[r].status = 500
            /\ Len(outcome[r].detail) = 2
            /\ outcome[r].detail[1] = "LLM generation failed"
            /\ Len(CallsIn(r, "Generate", "failures")) = 1
            /\ Len(CallsIn(r, "except HTTPException", "failures")) = 1
            /\ Added(r, "failures") = 2
            /\ NumCalls(r, "request_count") = 0
            /\ NumCalls(r, "tokens_in") = 0
            /\ NumCalls(r, "tokens_out") = 0
            /\ NumCalls(r, "llm_latency") = 0
            /\ NumCalls(r, "request_latency") = 0

C3_Witness ==
    \E r \in Requests :
        /\ Ended(r)
        /\ GatewayFailed(r)
        /\ local[r].gateway_calls # <<>>
        /\ outcome[r].status = 500

\* ------------------------------------------------------------------ C4
\* The security stage of r has run to its end.
SecurityDone(r) == spans[r].security.state = "closed"

\* The parts of C4 the code agrees with: a per-category increment by the
\* category's count for each category present and none for the others,
\* nothing added without PII, and the injection counter incremented by
\* exactly 1 iff an injection was detected.
C4_PerCategoryAndInjection(r) ==
    LET res == local[r].security_result IN
        /\ \A cat \in PiiCategories :
              /\ AddedWith(r, "pii_leak_count", cat) =
                    IF cat \in DOMAIN res.pii_types THEN res.pii_types[cat] ELSE 0
              /\ Len(CallsWith(r, "pii_leak_count", cat)) =
                    IF cat \in DOMAIN res.pii_types THEN 1 ELSE 0
        /\ ~res.pii_detected => NumCalls(r, "pii_leak_count") = 0
        /\ Added(r, "prompt_injection_count") = IF res.prompt_injection THEN 1 ELSE 0
        /\ NumCalls(r, "prompt_injection_count") = IF res.prompt_injection THEN 1 ELSE 0

\* C4 as stated: when PII is detected the PII counter is incremented,
\* without category dimension, by the sum of the per-category counts of the
\* finding (and per category by each count; the injection counter by 1 iff
\* injection is detected).
C4_Original ==
    \A r \in Requests :
        SecurityDone(r) =>
            /\ C4_PerCategoryAndInjection(r)
            /\ local[r].security_result.pii_detected =>
                  AddedWith(r, "pii_leak_count", NoAttr) =
                     SumOver(local[r].security_result.pii_types,
                             DOMAIN local[r].security_result.pii_types)

\* C4 amended: when PII is detected the PII counter is incremented, without
\* category dimension, by exactly 1 whatever the counts are, and for each
\* category present the category-dimensioned counter by that category's
\* count; without PII the counter is untouched; the injection counter is
\* incremented by exactly 1 iff injection is detected.
C4_Amended ==
    \A r \in Requests :
        SecurityDone(r) =>
            /\ C4_PerCategoryAndInjection(r)
            /\ AddedWith(r, "pii_leak_count", NoAttr) =
                  IF local[r].security_result.pii_detected THEN 1 ELSE 0
            /\ Len(CallsWith(r, "pii_leak_count", NoAttr)) =
                  IF local[r].security_result.pii_detected THEN 1 ELSE 0

C4_Witness ==
    \E r \in Requests :
        /\ SecurityDone(r)
        /\ local[r].security_result.pii_detected
        /\ local[r].security_result.pii_types["email"] = 2
        /\ local[r].security_result.pii_types["ssn"] = 1
        /\ AddedWith(r, "pii_leak_count", "email") = 2
        /\ AddedWith(r, "pii_leak_count", NoAttr) = 1

\* ------------------------------------------------------------------ C5
\* C5: while one request is suspended in SlowGate, another request in flight
\* is not kept from making progress: a request that has arrived and waits
\* for its handler can start it.
C5_SlowGateYields ==
    \A r \in Requests, q \in Requests :
        pc[r] = "Sleeping" /\ pc[q] = "pending" /\ ~SlowRequested(q) =>
            ENABLED Start(q)

\* ------------------------------------------------------------------ C6
\* C6 as stated: every request that ends in a failure has incremented the
\* failure counter and has produced exactly one log record of its failure.
C6_Original ==
    \A r \in Requests :
        Ended(r) /\ outcome[r].status # 200 =>
            /\ Added(r, "failures") >= 1
            /\ Len(FailureLogs(r)) = 1

\* C6 amended: every failure path increments the failure counter before the
\* failure response is returned; the simulated failure and the unexpected
\* error produce exactly one log record of the failure, the generation
\* failure two (one by the gateway, one by the handler), and the 503 of an
\* unavailable gateway none.
C6_Amended ==
    \A r \in Requests :
        Ended(r) /\ outcome[r].status # 200 =>
            /\ Added(r, "failures") >= 1
            /\ Len(FailureLogs(r)) =
                  IF outcome[r].status = 503 THEN 0
                  ELSE IF GatewayFailed(r) THEN 2
                  ELSE 1

C6_Witness ==
    /\ \E r \in Requests :
          /\ Ended(r)
          /\ outcome[r].status = 503
          /\ Len(FailureLogs(r)) = 0
          /\ Added(r, "failures") = 1
    /\ \E q \in Requests :
          /\ Ended(q)
          /\ FailureRequested(q)
          /\ Len(FailureLogs(q)) = 1

\* ------------------------------------------------------------------ C7
\* The configured delay is no integer literal: int() raises on it.
DelayUnparseable == env.delay_ms \notin {"unset", "5", "0", "-5"}

\* The status the failure taxonomy gives a request, from what happened to it.
TaxonomyStatus(r) ==
    IF FailureRequested(r) THEN 500
    ELSE IF SlowRequested(r) /\ DelayUnparseable THEN 500
    ELSE IF ~gemini_client THEN 503
    ELSE IF GatewayFailed(r) THEN 500
    ELSE 200

\* C7: every request ends with the status of the failure taxonomy: 503 when
\* the gateway client was never initialized, 500 for a simulated failure, a
\* generation failure or an unexpected error, and otherwise a success
\* carrying the response and the request id; a request that ends with 503
\* has opened no llm.request span and has not invoked the gateway.
C7_Taxonomy ==
    \A r \in Requests :
        Ended(r) =>
            /\ outcome[r].status = TaxonomyStatus(r)
            /\ outcome[r].status = 503 =>
                  /\ ~gemini_client
                  /\ spans[r].llm.state = "none"
                  /\ local[r].gateway_calls = <<>>
            /\ outcome[r].status = 200 =>
                  /\ outcome[r].request_id = local[r].request_id
                  /\ outcome[r].request_id # 0
                  /\ outcome[r].detail = <<"response_text">>

C7_Witness ==
    /\ \E r \in Requests :
          Ended(r) /\ outcome[r].status = 503 /\ ~FailureRequested(r)
    /\ \E q \in Requests :
          Ended(q) /\ outcome[q].status = 500 /\ FailureRequested(q)

\* ------------------------------------------------------------------ C8
\* No two calls of a request on the same instrument with the same attributes
\* are made in the same stage.
OncePerStage(r) ==
    \A i \in 1..Len(calls[r]), j \in 1..Len(calls[r]) :
        i # j =>
            \/ calls[r][i].stage # calls[r][j].stage
            \/ calls[r][i].inst # calls[r][j].inst
            \/ calls[r][i].attr # calls[r][j].attr

\* C8: a stage a request skips adds nothing to the stage's metrics (no
\* security stage: injection and PII counters untouched; no Generate stage
\* or a failed gateway call: token counters and generation latency
\* untouched; not Completed: request counter and request latency untouched),
\* and a stage that is entered makes each of its increments exactly once.
C8_SkippedStages ==
    \A r \in Requests :
        /\ spans[r].security.state = "none" =>
              /\ NumCalls(r, "prompt_injection_count") = 0
              /\ NumCalls(r, "pii_leak_count") = 0
        /\ spans[r].llm.state = "none" \/ GatewayFailed(r) =>
              /\ NumCalls(r, "tokens_in") = 0
              /\ NumCalls(r, "tokens_out") = 0
              /\ NumCalls(r, "llm_latency") = 0
        /\ pc[r] # "Completed" =>
              /\ NumCalls(r, "request_count") = 0
              /\ NumCalls(r, "request_latency") = 0
        /\ OncePerStage(r)
        /\ spans[r].llm.state = "closed" /\ ~GatewayFailed(r) =>
              /\ NumCalls(r, "tokens_in") = 1
              /\ NumCalls(r, "tokens_out") = 1
              /\ NumCalls(r, "llm_latency") = 1
        /\ pc[r] = "Completed" =>
              /\ NumCalls(r, "request_count") = 1
              /\ NumCalls(r, "request_latency") = 1

C8_Witness ==
    /\ \E r \in Requests :
          /\ Ended(r)
          /\ spans[r].security.state = "none"
          /\ calls[r] # <<>>
    /\ \E q \in Requests :
          /\ Ended(q)
          /\ GatewayFailed(q)
          /\ NumCalls(q, "pii_leak_count") > 1

\* ------------------------------------------------------------------ C9
\* The stage a request is in: 0 before Start, 1 FaultGate, 2 SecurityCheck,
\* 3 SlowGate, 4 Generate, 5 the terminal handling and the terminal states.
Stage(p) ==
    CASE p \in {"idle", "pending"} -> 0
      [] p = "FaultGate" -> 1
      [] p \in {"RootSpan", "SecurityCheck", "Analyze"} -> 2
      [] p \in {"SlowGate", "Sleeping"} -> 3
      [] p \in {"CheckClient", "Generate", "InGateway"} -> 4
      [] OTHER -> 5

\* One step of request r respects the order of the stages.
C9_Step(r) ==
    pc'[r] # pc[r] =>
        /\ Stage(pc[r]) \in {0, 2} =>
              Stage(pc'[r]) \in {Stage(pc[r]), Stage(pc[r]) + 1}
        /\ Stage(pc[r]) = 1 =>
              IF FailureRequested(r)
              THEN pc'[r] = "FailedSimulated"
              ELSE Stage(pc'[r]) = 2
        /\ Stage(pc[r]) \in {3, 4} =>
              Stage(pc'[r]) \in {Stage(pc[r]), Stage(pc[r]) + 1, 5}
        /\ Stage(pc[r]) = 5 => Stage(pc'[r]) = 5

\* What a request that has left FaultGate looks like.
C9_State(r) ==
    /\ FailureRequested(r) /\ Stage(pc[r]) > 1 =>
          /\ pc[r] = "FailedSimulated"
          /\ spans[r] = NoSpans
          /\ local[r].security_result = NoFinding
          /\ local[r].slept = <<>>
          /\ local[r].gateway_calls = <<>>
    /\ local[r].gateway_calls # <<>> => SecurityDone(r)
    /\ spans[r].llm.state # "none" => SecurityDone(r)

\* C9: the stages run in the order Start, FaultGate, SecurityCheck,
\* SlowGate, Generate, terminal.  A request whose simulate-failure decision
\* is true goes from FaultGate straight to FailedSimulated: the analyzer is
\* not run, no span is opened, no delay is applied and the gateway is not
\* invoked.  Otherwise the stage after FaultGate is SecurityCheck, and the
\* gateway is not invoked before SecurityCheck has finished.
C9_StageOrder ==
    /\ [](\A r \in Requests : C9_State(r))
    /\ [][\A r \in Requests : C9_Step(r)]_vars

C9_Witness ==
    /\ \E r \in Requests :
          /\ pc[r] = "FailedSimulated"
          /\ FailureRequested(r)
          /\ input[r].message # <<>>
    /\ \E q \in Requests :
          /\ local[q].gateway_calls # <<>>
          /\ SecurityDone(q)

\* ----------------------------------------------------------------- C10
\* The request has logged that its failure is simulated (main.py 125).
FailureSimulated(r) ==
    \E i \in 1..Len(logs[r]) : logs[r][i].msg = "Simulating failure"

\* The request has resolved its slow-mode delay without an error.
PastSlowGate(r) ==
    \/ pc[r] \in {"Sleeping", "CheckClient", "Generate", "InGateway",
                  "Completing", "Completed", "FailedGeneration",
                  "FailedUnavailable"}
    \/ pc[r] = "ExceptHTTP"

\* The delay the configuration asks for (1000 when nothing is configured).
ConfiguredDelay ==
    CASE env.delay_ms = "unset" -> 1000
      [] env.delay_ms = "5" -> 5
      [] env.delay_ms = "0" -> 0
      [] env.delay_ms = "-5" -> 0 - 5
      [] OTHER -> 0

\* C10: for every per-request override (absent, true, false) and every
\* value of the process-wide flag, the failure is simulated iff the override
\* is true or the flag is set, and slow mode is decided the same way, so an
\* explicit false does not disable a flag that is set; the resolved delay is
\* the configured delay when slow mode is decided and 0 otherwise; neither
\* decision depends on the inputs of the other.
C10_Resolve ==
    /\ \A r \in Requests :
          /\ Stage(pc[r]) > 1 => (FailureSimulated(r) <=> FailureRequested(r))
          /\ PastSlowGate(r) =>
                local[r].slow_mode_delay =
                   IF SlowRequested(r) THEN ConfiguredDelay ELSE 0
    /\ \A r \in Requests, q \in Requests :
          /\ Stage(pc[r]) > 1 /\ Stage(pc[q]) > 1
                /\ input[r].simulate_failure = input[q].simulate_failure =>
                (FailureSimulated(r) <=> FailureSimulated(q))
          /\ PastSlowGate(r) /\ PastSlowGate(q)
                /\ input[r].slow_mode = input[q].slow_mode =>
                local[r].slow_mode_delay = local[q].slow_mode_delay

C10_Witness ==
    /\ \E r \in Requests :
          /\ PastSlowGate(r)
          /\ input[r].slow_mode = "false"
          /\ FlagSet(env.slow_mode)
          /\ local[r].slow_mode_delay = 5
    /\ \E q \in Requests :
          /\ input[q].simulate_failure = "true"
          /\ input[q].slow_mode = "absent"
          /\ FailureSimulated(q)

\* ----------------------------------------------------------------- C11
\* The request has executed the SlowGate stage.
SlowGateDone(r) ==
    ~FailureSimulated(r) /\ (pc[r] = "Sleeping" \/ Stage(pc[r]) > 3)

\* C11: when slow mode is decided and the configured delay is unset or is
\* no integer, the resolved delay is 1000 and the request goes on to the
\* Generate stage instead of failing; the resolved delay is never negative.
C11_InvalidDelayDefaults ==
    \A r \in Requests :
        /\ SlowGateDone(r) /\ SlowRequested(r)
              /\ (env.delay_ms = "unset" \/ DelayUnparseable) =>
              /\ local[r].slow_mode_delay = 1000
              /\ pc[r] \notin {"ExceptOther", "FailedUnexpected"}
        /\ local[r].slow_mode_delay >= 0

\* ----------------------------------------------------------------- C12
\* What C12 and the code agree on for a request the catch-all has handled:
\* one error record logged, no llm.request span and no gateway call when the
\* error came before Generate, status 500.
C12_Common(r) ==
    /\ Len(FailureLogs(r)) = 1
    /\ FailureLogs(r)[1].level = "ERROR"
    /\ FailureLogs(r)[1].logger = "app.main"
    /\ spans[r].llm.state = "none"
    /\ local[r].gateway_calls = <<>>
    /\ outcome[r].status = 500

MaxCount == 2
MaxListLen == 2

\* A Python value as far as the extraction looks at it: an attribute the
\* object does not have, an int, a list of ints, or an exception raised by
\* an operation on operands it is not defined for.
Absent == [kind |-> "absent", val |-> <<>>, n |-> 0]
IntVal(n) == [kind |-> "int", val |-> <<>>, n |-> n]
ListVal(s) == [kind |-> "list", val |-> s, n |-> 0]
Raise == [kind |-> "raise", val |-> <<>>, n |-> 0]

CountLists == UNION {[1..n -> 0..MaxCount] : n \in 0..MaxListLen}
ScalarField == {Absent} \cup {IntVal(n) : n \in 0..MaxCount}
PluralField == ScalarField \cup {ListVal(s) : s \in CountLists}

UsageFields ==
    [prompt_token_count : ScalarField,
     prompt_token_counts : PluralField,
     candidates_token_count : ScalarField,
     candidates_token_counts : PluralField,
     total_token_count : ScalarField]

NoUsageFields ==
    [prompt_token_count |-> Absent,
     prompt_token_counts |-> Absent,
     candidates_token_count |-> Absent,
     candidates_token_counts |-> Absent,
     total_token_count |-> Absent]

\* The responses of the model as far as lines 76-97 read them: the
\* response has no usage_metadata attribute, has a falsy one, or has one
\* with some of the five fields.
IsResponse(response) ==
    /\ response.usage_metadata \in {"absent", "falsy", "present"}
    /\ response.fields \in UsageFields
    /\ response.usage_metadata # "present" => response.fields = NoUsageFields

hasattr(usage, f) == usage[f].kind # "absent"

isinstance_list(v) == v.kind = "list"

RECURSIVE SumSeq(_)
SumSeq(s) == IF s = <<>> THEN 0 ELSE Head(s) + SumSeq(Tail(s))

\* sum(): defined on a list of ints.
sum(v) == IF v.kind = "list" THEN IntVal(SumSeq(v.val)) ELSE Raise

\* total - tokens_in: defined on two ints.
sub(a, b) ==
    IF a.kind = "int" /\ b.kind = "int" THEN IntVal(a.n - b.n) ELSE Raise

\* The estimate without the lower limit of 0.
max0_Unclamped(v) == v

\* max(0, v)
max0(v) ==
    IF v.kind = "int" THEN IntVal(IF v.n > 0 THEN v.n ELSE 0) ELSE Raise

\* llm.py 83-86 and 91-94: a list is summed, anything else is taken as is.
CountOf(v) == IF isinstance_list(v) THEN sum(v) ELSE v

\* llm.py 79-86
usage_tokens_in(usage) ==
    IF hasattr(usage, "prompt_token_count") THEN usage.prompt_token_count
    ELSE IF hasattr(usage, "prompt_token_counts")
         THEN CountOf(usage.prompt_token_counts)
    ELSE IntVal(0)

\* llm.py 88-97
usage_tokens_out(usage, tokens_in) ==
    IF hasattr(usage, "candidates_token_count")
        THEN usage.candidates_token_count
    ELSE IF hasattr(usage, "candidates_token_counts")
        THEN CountOf(usage.candidates_token_counts)
    ELSE IF hasattr(usage, "total_token_count")
        THEN max0(sub(usage.total_token_count, tokens_in))
    ELSE IntVal(0)

\* llm.py 69-97: the token counts generate() returns for a response, and
\* whether computing them raised.
token_counts(response) ==
    IF response.usage_metadata # "present"
    THEN [kind |-> "token_counts", tokens_in |-> IntVal(0),
          tokens_out |-> IntVal(0), raised |-> FALSE]
    ELSE LET tin == usage_tokens_in(response.fields)
             tout == usage_tokens_out(response.fields, tin)
         IN  [kind |-> "token_counts", tokens_in |-> tin, tokens_out |-> tout,
              raised |-> tin.kind = "raise" \/ tout.kind = "raise"]

\* No variable of the environment is set.
EmptyEnv == [failure_mode |-> "unset", slow_mode |-> "unset", delay_ms |-> "unset"]

\* The extraction applied on its own to every response.
InitUsage ==
    /\ PipelineInit
    /\ env = EmptyEnv
    /\ \E m \in {"absent", "falsy", "present"} :
       \E pc1 \in ScalarField, pcs \in PluralField,
          cc1 \in ScalarField, ccs \in PluralField, total \in ScalarField :
          LET response ==
                  [usage_metadata |-> m,
                   fields |-> [prompt_token_count |-> pc1,
                               prompt_token_counts |-> pcs,
                               candidates_token_count |-> cc1,
                               candidates_token_counts |-> ccs,
                               total_token_count |-> total]]
          IN  /\ IsResponse(response)
              /\ arg = [kind |-> "response", val |-> response]
    /\ result = NoValue

ExtractUsage ==
    /\ arg.kind = "response"
    /\ result = NoValue
    /\ result' = token_counts(arg.val)
    /\ UNCHANGED <<pipeline, arg>>

NextUsage == ExtractUsage

SpecUsage == InitUsage /\ [][NextUsage]_vars

\* ----------------------------------------------------------------- C13
\* The count a field pair (scalar name, plural name) stands for.
FieldCount(usage, scalar, plural) ==
    IF usage[scalar].kind = "int" THEN usage[scalar].n
    ELSE IF usage[plural].kind = "int" THEN usage[plural].n
    ELSE IF usage[plural].kind = "list" THEN SumSeq(usage[plural].val)
    ELSE 0

NoOutputField(usage) ==
    /\ usage.candidates_token_count = Absent
    /\ usage.candidates_token_counts = Absent

\* C13: for every combination of present and absent usage fields the
\* extraction does not raise and returns integers >= 0: a scalar count as it
\* is, a list of counts summed, with no output field but a total
\* max(0, total - input), and 0 for whatever is missing.
C13_UsageExtraction ==
    result.kind = "token_counts" =>
        LET usage == arg.val.fields
            tin == result.tokens_in
            tout == result.tokens_out
        IN  /\ ~result.raised
            /\ tin.kind = "int" /\ tin.n \in Nat
            /\ tout.kind = "int" /\ tout.n \in Nat
            /\ arg.val.usage_metadata # "present" => tin.n = 0 /\ tout.n = 0
            /\ tin.n = FieldCount(usage, "prompt_token_count", "prompt_token_counts")
            /\ ~NoOutputField(usage) =>
                  tout.n = FieldCount(usage, "candidates_token_count",
                                      "candidates_token_counts")
            /\ NoOutputField(usage) /\ usage.total_token_count = Absent =>
                  tout.n = 0
            /\ NoOutputField(usage) /\ usage.total_token_count # Absent =>
                  /\ tout.n >= usage.total_token_count.n - tin.n
                  /\ tout.n > 0 => tout.n = usage.total_token_count.n - tin.n

\* A total smaller than the summed input counts, with no output field: the
\* estimate is held at 0.
C13_Witness ==
    /\ result.kind = "token_counts"
    /\ arg.val.usage_metadata = "present"
    /\ NoOutputField(arg.val.fields)
    /\ arg.val.fields.prompt_token_count = Absent
    /\ arg.val.fields.prompt_token_counts.kind = "list"
    /\ arg.val.fields.total_token_count.kind = "int"
    /\ arg.val.fields.total_token_count.n < result.tokens_in.n
    /\ result.tokens_out.n = 0

\* ----------------------------------------------------------------- C14
\* lifespan has logged that GeminiClient() returned a client.
InitSucceeded ==
    /\ Len(startup_log) = 2
    /\ startup_log[2].msg = "Gemini client initialized successfully"

\* The request has executed the check of the client (main.py 160).
ReachedAvailabilityCheck(r) ==
    \/ local[r].exc_status = UnavailableStatus
    \/ pc[r] = "Generate"
    \/ spans[r].llm.state # "none"

C14_State ==
    /\ app = "starting" => ENABLED lifespan
    /\ app = "serving" =>
          /\ Len(startup_log) = 2
          /\ health_response.gemini_available <=> InitSucceeded
          /\ \A r \in Requests :
                ReachedAvailabilityCheck(r) =>
                    /\ local[r].exc_status = UnavailableStatus
                           <=> ~health_response.gemini_available
                    /\ Ended(r) =>
                           (outcome[r].status = 503
                               <=> ~health_response.gemini_available)

C14_Step ==
    /\ app = "starting" => app' = "serving"
    /\ app = "serving" =>
          /\ app' = "serving"
          /\ health_response' = health_response

\* C14: the application starts whether or not the client was initialized;
\* once it serves, GET /health reports the gateway available iff the
\* initialization succeeded, the reported value never changes, and a request
\* that reached the check of the client gets 503 iff health reports
\* unavailable.
C14_Health == [](C14_State) /\ [][C14_Step]_vars

C14_Witness ==
    /\ app = "serving"
    /\ ~InitSucceeded
    /\ ~health_response.gemini_available
    /\ \E r \in Requests :
          /\ pc[r] = "FailedUnavailable"
          /\ outcome[r].status = 503
    /\ \E r \in Requests : pc[r] = "CheckClient"

\* --------------------------------------- security.py: redact_preview
\* The longest text a preview is taken of.
MaxTextLen == 52

\* The texts: of every length up to MaxTextLen, lower-case letters in
\* alphabetical order starting at two different letters.
TextStarts == {0, 7}
Text(n, k) == [i \in 1..n |-> 97 + ((i + k) % 26)]

InitPreview ==
    /\ PipelineInit
    /\ env = EmptyEnv
    /\ \E n \in 0..MaxTextLen, k \in TextStarts :
          arg = [kind |-> "text", val |-> Text(n, k)]
    /\ result = NoValue

Preview ==
    /\ arg.kind = "text"
    /\ result = NoValue
    /\ result' = [kind |-> "preview",
                  val |-> redact_preview(arg.val, DefaultMaxLength)]
    /\ UNCHANGED <<pipeline, arg>>

NextPreview == Preview

SpecPreview == InitPreview /\ [][NextPreview]_vars

\* ----------------------------------------------------------------- C15
\* C15: with the default maximum of 50 a text of at most 50 characters is
\* its own preview; a longer text's preview is its first 20 characters,
\* three dots and its last 20 characters in that order, 43 characters in
\* all.
C15_Preview ==
    result.kind = "preview" =>
        LET text == arg.val
            preview == result.val
        IN  IF Len(text) <= 50
            THEN preview = text
            ELSE /\ Len(preview) = 43
                 /\ \A i \in 1..20 : preview[i] = text[i]
                 /\ \A i \in 21..23 : preview[i] = 46
                 /\ \A i \in 1..20 : preview[23 + i] = text[Len(text) - 20 + i]

C15_Witness ==
    /\ result.kind = "preview"
    /\ Len(arg.val) = 51
    /\ Len(result.val) = 43
    /\ result.val[20] # result.val[24]

\* ------------------------------------------- security.py: the analysis
\* The longest text, in words, the analysis is applied to on its own.
MaxWords == 2

InitPii ==
    /\ PipelineInit
    /\ env = EmptyEnv
    /\ \E n \in 0..MaxWords :
          \E msg \in [1..n -> Words] : arg = [kind |-> "prompt", val |-> msg]
    /\ result = NoValue

AnalyzePrompt ==
    /\ arg.kind = "prompt"
    /\ result = NoValue
    /\ result' = [kind |-> "finding", val |-> analyze_security(arg.val)]
    /\ UNCHANGED <<pipeline, arg>>

NextPii == AnalyzePrompt

SpecPii == InitPii /\ [][NextPii]_vars

\* ----------------------------------------------------------------- C16
\* C16: the mapping of the finding has a key only for a category drawn
\* from the five whose pattern matches at least once, its value is that
\* pattern's own number of matches whatever the other patterns match, and
\* pii_detected is true iff the mapping is not empty.
C16_PiiMapping ==
    result.kind = "finding" =>
        LET types == result.val.pii_types
        IN  /\ DOMAIN types \subseteq
                  {"email", "ssn", "credit_card", "phone", "ip_address"}
            /\ \A c \in DOMAIN types : types[c] >= 1
            /\ \A c \in PiiCategories :
                  /\ c \in DOMAIN types <=> CountMatches(arg.val, c) >= 1
                  /\ c \in DOMAIN types => types[c] = CountMatches(arg.val, c)
            /\ result.val.pii_detected <=> DOMAIN types # {}

\* A word that two patterns match, next to a word one of them matches.
C16_Witness ==
    /\ result.kind = "finding"
    /\ arg.val = <<"a@10.0.0.1.com", "10.0.0.1">>
    /\ DOMAIN result.val.pii_types = {"email", "ip_address"}
    /\ result.val.pii_types["email"] = 1
    /\ result.val.pii_types["ip_address"] = 2
    /\ result.val.pii_detected

\* ----------------------------------------------------------------- C17
SpanOpen(r, name) == spans[r][name].state = "open"

\* C17: security.check and llm.request are never open together, each is
\* open only while chat.request is open, security.check is closed before
\* SlowGate begins, and a request that has its answer, whichever it is, has
\* no open span.
C17_Spans ==
    \A r \in Requests :
        /\ ~(SpanOpen(r, "security") /\ SpanOpen(r, "llm"))
        /\ SpanOpen(r, "security") => SpanOpen(r, "root")
        /\ SpanOpen(r, "llm") => SpanOpen(r, "root")
        /\ pc[r] \in {"SlowGate", "Sleeping"} =>
              spans[r].security.state = "closed"
        /\ spans[r].llm.state # "none" => spans[r].security.state = "closed"
        /\ Ended(r) =>
              \A name \in {"root", "security", "llm"} :
                  spans[r][name].state \in {"none", "closed"}

\* A failed generation: the three spans were opened and are closed.
C17_Witness ==
    \E r \in Requests :
        /\ pc[r] = "FailedGeneration"
        /\ outcome[r].status = 500
        /\ \A name \in {"root", "security", "llm"} :
              spans[r][name].state = "closed"
        /\ spans[r].llm.status = "error"

\* ----------------------------------------------------------------- C18
\* The records that log an injected delay.
DelayLogs(r) == SelectSeq(logs[r], LAMBDA l : l.msg = "Slow mode delay")

\* The request has left the SlowGate stage without an error.
PastSuspension(r) == PastSlowGate(r) /\ pc[r] # "Sleeping"

\* C18: a request whose resolved delay is > 0 is suspended for that delay
\* exactly once, after SecurityCheck and before the gateway is called, and
\* the delay is logged once; a request whose slow mode resolves to false or
\* whose delay is <= 0 is not suspended and logs no delay; the gateway is
\* never called before the suspension has ended.
C18_Suspension ==
    \A r \in Requests :
        /\ Len(local[r].slept) <= 1
        /\ Len(DelayLogs(r)) = Len(local[r].slept)
        /\ ~PastSlowGate(r) => local[r].slept = <<>>
        /\ PastSuspension(r) =>
              IF SlowRequested(r) /\ local[r].slow_mode_delay > 0
              THEN local[r].slept = <<local[r].slow_mode_delay>>
              ELSE local[r].slept = <<>>
        /\ pc[r] = "Sleeping" =>
              /\ local[r].slow_mode_delay > 0
              /\ local[r].slept = <<>>
              /\ SecurityDone(r)
              /\ spans[r].security.state = "closed"
              /\ local[r].gateway_calls = <<>>
        /\ local[r].gateway_calls # <<>> =>
              /\ PastSuspension(r)
              /\ local[r].slow_mode_delay > 0 =>
                    local[r].slept = <<local[r].slow_mode_delay>>

\* One request was suspended for the configured 5 ms before its gateway
\* call; another, with slow mode off, reached the gateway without a delay.
C18_Witness ==
    /\ \E r \in Requests :
          /\ local[r].slept = <<5>>
          /\ Len(DelayLogs(r)) = 1
          /\ local[r].gateway_calls # <<>>
    /\ \E q \in Requests :
          /\ ~SlowRequested(q)
          /\ local[q].gateway_calls # <<>>
          /\ local[q].slept = <<>>
          /\ DelayLogs(q) = <<>>

\* ----------------------------------------------------------------- C19
Started(r) == Stage(pc[r]) > 0

C19_State ==
    /\ \A r \in Requests :
          /\ Started(r) <=> local[r].request_id # 0
          /\ \A i \in 1..Len(local[r].gateway_calls) :
                local[r].gateway_calls[i].request_id = local[r].request_id
          /\ spans[r].root.written =>
                spans[r].root.attrs.request_id = local[r].request_id
          /\ \A i \in 1..Len(logs[r]) :
                logs[r][i].msg = "Request completed successfully" =>
                    logs[r][i].request_id = local[r].request_id
          /\ outcome[r].status = 200 =>
                outcome[r].request_id = local[r].request_id
    /\ \A r \in Requests, q \in Requests :
          r # q /\ Started(r) /\ Started(q) =>
              local[r].request_id # local[q].request_id
    /\ next_uuid = 1 + Cardinality({r \in Requests : Started(r)})

C19_Step ==
    \A r \in Requests :
        /\ Started(r) => local'[r].request_id = local[r].request_id
        /\ local'[r].request_id # local[r].request_id =>
              pc[r] = "pending" /\ pc'[r] = "FaultGate"

\* C19: the request id is generated once, when the handler starts, and
\* never changes; the id passed to the gateway, written to the root span,
\* written to the completion log record and returned in the success
\* response is that value, and two requests never have the same id.
C19_RequestId == [](C19_State) /\ [][C19_Step]_vars

C19_Witness ==
    \E r \in Requests, q \in Requests :
        /\ r # q
        /\ pc[r] = "Completed" /\ pc[q] = "Completed"
        /\ outcome[r].request_id = local[r].request_id
        /\ outcome[q].request_id = local[q].request_id
        /\ outcome[r].request_id # outcome[q].request_id
        /\ spans[r].root.attrs.request_id = local[r].gateway_calls[1].request_id

\* ----------------------------------------------------------------- C20
C20_State ==
    \A r \in Requests :
        /\ Ended(r) <=> outcome[r].status # 0
        /\ Ended(r) => outcome[r].status \in {200, 500, 503}
        /\ pc[r] = "Completed" <=> outcome[r].status = 200
        /\ pc[r] = "FailedUnavailable" <=> outcome[r].status = 503
        /\ pc[r] = "InGateway" => ~ENABLED HandlerStep(r)

C20_Step ==
    \A r \in Requests :
        outcome[r].status # 0 =>
            /\ outcome'[r] = outcome[r]
            /\ pc'[r] = pc[r]
            /\ calls'[r] = calls[r]
            /\ spans'[r] = spans[r]
            /\ logs'[r] = logs[r]

\* C20: with a gateway call that eventually returns or fails, every started
\* request eventually has exactly one answer (200, 500 or 503); once it has
\* it, the answer does not change and the request makes no further counter
\* increment or span operation.  While the gateway call is outstanding no
\* step of the handler (no timeout, no cancellation) ends the request.
\* Having started and having ended are both permanent, so that every
\* started request eventually ends is stated as: from some point on every
\* request that has started has ended.
C20_Termination ==
    /\ <>[](\A r \in Requests : Started(r) => Ended(r))
    /\ [](C20_State)
    /\ [][C20_Step]_vars

\* Both requests have their answers, one after a gateway call that returned
\* and one after a gateway call that failed.
C20_Witness ==
    /\ \A r \in Requests : Ended(r)
    /\ \E r \in Requests : pc[r] = "Completed" /\ outcome[r].status = 200
    /\ \E r \in Requests : pc[r] = "FailedGeneration" /\ outcome[r].status = 500

\* ----------------------------------------------------------------- C21
\* The gateway's reply to r as far as the handler has seen one.
GatewayReply(r) ==
    [failed |-> GatewayFailed(r),
     tokens_in |-> local[r].tokens_in,
     tokens_out |-> local[r].tokens_out]

\* How a request with input inp ends when it is the only request, under
\* environment e, with or without a client, given the gateway's reply.
AloneEnd(inp, e, client, reply) ==
    IF ResolveSimulateFailure(inp.simulate_failure, e.failure_mode)
        THEN "FailedSimulated"
    ELSE IF /\ ResolveSlowMode(inp.slow_mode, e.slow_mode)
            /\ ~ParseInt(GetEnv(e.delay_ms, "1000")).ok
        THEN "FailedUnexpected"
    ELSE IF ~client THEN "FailedUnavailable"
    ELSE IF reply.failed THEN "FailedGeneration"
    ELSE "Completed"

\* The instrument calls such a request makes.
AloneCalls(inp, e, client, reply) ==
    LET end == AloneEnd(inp, e, client, reply)
        sec == SecurityCalls(analyze_security(inp.message))
    IN  CASE end = "FailedSimulated" ->
                <<Call("FaultGate", "failures", 1, NoAttr)>>
          [] end = "FailedUnexpected" -> sec \o ExceptOtherCalls
          [] end = "FailedUnavailable" -> sec \o ExceptHTTPCalls
          [] end = "FailedGeneration" ->
                sec \o GatewayFailCalls \o ExceptHTTPCalls
          [] OTHER ->
                sec \o GenerateCalls(reply.tokens_in, reply.tokens_out)
                    \o CompleteCalls

\* Its answer.
AloneOutcome(inp, e, client, reply) ==
    LET end == AloneEnd(inp, e, client, reply)
    IN  CASE end = "FailedSimulated" ->
                [status |-> 500, detail |-> <<"Simulated failure for testing">>]
          [] end = "FailedUnexpected" ->
                [status |-> 500,
                 detail |-> <<"Internal server error",
                              "invalid literal for int()", e.delay_ms>>]
          [] end = "FailedUnavailable" ->
                [status |-> 503, detail |-> <<"LLM service is not available">>]
          [] end = "FailedGeneration" ->
                [status |-> 500,
                 detail |-> <<"LLM generation failed", "backend error">>]
          [] OTHER -> [status |-> 200, detail |-> <<"response_text">>]

\* The attributes on its spans; the request id, a random value, is left out.
AloneAttrs(inp, e, client, reply) ==
    LET end == AloneEnd(inp, e, client, reply)
        res == analyze_security(inp.message)
    IN  [security |-> SecurityAttrs(IF end = "FailedSimulated" THEN NoFinding ELSE res),
         llm |-> IF end = "Completed"
                 THEN [tokens_in |-> reply.tokens_in,
                       tokens_out |-> reply.tokens_out]
                 ELSE NoLlmAttrs,
         root |-> IF end = "Completed"
                  THEN [request_id |-> 0,
                        tokens_in |-> reply.tokens_in,
                        tokens_out |-> reply.tokens_out,
                        prompt_injection |-> res.prompt_injection,
                        pii_detected |-> res.pii_detected,
                        prompt_hash |-> res.prompt_hash]
                  ELSE NoRootAttrs]

\* The attributes on the spans of r, without the request id.
SpanAttrs(r) ==
    [security |-> spans[r].security.attrs,
     llm |-> spans[r].llm.attrs,
     root |-> [spans[r].root.attrs EXCEPT !.request_id = 0]]

\* What all requests together have added to a counter.
RECURSIVE AddedByAll(_, _, _)
AddedByAll(S, inst, attr) ==
    IF S = {} THEN 0
    ELSE LET r == CHOOSE x \in S : TRUE
         IN  AddedWith(r, inst, attr) + AddedByAll(S \ {r}, inst, attr)

\* C21: whatever the order and interleaving of the requests, every counter
\* holds the sum of what the requests have added, a request that has ended
\* has added exactly what it adds when run alone, and its answer and span
\* attributes are those of the request run alone: functions of its own
\* input, the configuration and the gateway's reply to it.
C21_Isolation ==
    /\ \A inst \in Counters : \A attr \in AttrSets(inst) :
          app_metrics[inst][attr] = AddedByAll(Requests, inst, attr)
    /\ \A r \in Requests :
          Ended(r) =>
              /\ pc[r] = AloneEnd(input[r], env, gemini_client, GatewayReply(r))
              /\ calls[r] =
                    AloneCalls(input[r], env, gemini_client, GatewayReply(r))
              /\ outcome[r].status =
                    AloneOutcome(input[r], env, gemini_client, GatewayReply(r)).status
              /\ outcome[r].detail =
                    AloneOutcome(input[r], env, gemini_client, GatewayReply(r)).detail
              /\ SpanAttrs(r) =
                    AloneAttrs(input[r], env, gemini_client, GatewayReply(r))
    /\ \A r \in Requests, q \in Requests :
          /\ Ended(r) /\ Ended(q)
                /\ input[r] = input[q] /\ GatewayReply(r) = GatewayReply(q) =>
                /\ pc[r] = pc[q]
                /\ calls[r] = calls[q]
                /\ outcome[r].status = outcome[q].status
                /\ SpanAttrs(r) = SpanAttrs(q)

\* Two messages with different findings, one request completed and one
\* failed in the gateway: the failure counter holds the two increments of
\* the failed one, the request counter the one of the completed one, the
\* PII counter what the one message with PII added.
C21_Witness ==
    \E r \in Requests, q \in Requests :
        /\ pc[r] = "Completed" /\ pc[q] = "FailedGeneration"
        /\ input[r].message # input[q].message
        /\ app_metrics["failures"][NoAttr] = 2
        /\ app_metrics["request_count"][NoAttr] = 1
        /\ app_metrics["pii_leak_count"]["email"] = 2
        /\ app_metrics["prompt_injection_count"][NoAttr] = 1

\* ----------------------------------------------------------------- C22
\* C22: the check of the client comes after FaultGate, SecurityCheck and
\* SlowGate.  A request with simulated failure ends with 500 also when
\* there is no client; a request that ends with 503 has the analyzer's
\* counter increments applied, has been through its slow-mode delay if it
\* has one, and has incremented the failure counter exactly once.
C22_CheckOrder ==
    \A r \in Requests :
        /\ FailureRequested(r) /\ Ended(r) =>
              /\ outcome[r].status = 500
              /\ pc[r] = "FailedSimulated"
        /\ pc[r] = "CheckClient" \/ ReachedAvailabilityCheck(r) =>
              /\ ~FailureRequested(r)
              /\ SecurityDone(r)
              /\ PastSuspension(r)
              /\ local[r].slow_mode_delay > 0 =>
                    local[r].slept = <<local[r].slow_mode_delay>>
        /\ outcome[r].status = 503 =>
              /\ ~gemini_client
              /\ SecurityDone(r)
              /\ spans[r].security.attrs =
                    SecurityAttrs(analyze_security(input[r].message))
              /\ calls[r] =
                    SecurityCalls(analyze_security(input[r].message))
                        \o <<Call("except HTTPException", "failures", 1, NoAttr)>>
              /\ Added(r, "failures") = 1
              /\ NumCalls(r, "failures") = 1
              /\ SlowRequested(r) /\ local[r].slow_mode_delay > 0 =>
                    /\ local[r].slept = <<local[r].slow_mode_delay>>
                    /\ Len(DelayLogs(r)) = 1

\* Without a client: one request with simulated failure answered 500, and
\* one with PII in its message and a delay of 5 ms answered 503 after the
\* PII increments and the delay.
C22_Witness ==
    /\ ~gemini_client
    /\ \E r \in Requests :
          /\ pc[r] = "FailedSimulated"
          /\ outcome[r].status = 500
    /\ \E q \in Requests :
          /\ outcome[q].status = 503
          /\ AddedWith(q, "pii_leak_count", "email") = 2
          /\ local[q].slept = <<5>>
          /\ Added(q, "failures") = 1

\* ----------------------------------------------------------------- C23
\* The record a completed request has logged.
CompletionLog(r) ==
    SelectSeq(logs[r], LAMBDA l : l.msg = "Request completed successfully")

C23_State ==
    /\ \A r \in Requests :
          /\ SecurityDone(r) =>
                /\ local[r].security_result = analyze_security(input[r].message)
                /\ spans[r].security.attrs = SecurityAttrs(local[r].security_result)
          /\ pc[r] = "Completed" =>
                /\ spans[r].root.attrs.prompt_injection =
                      spans[r].security.attrs.prompt_injection
                /\ spans[r].root.attrs.pii_detected =
                      spans[r].security.attrs.pii_detected
                /\ spans[r].root.attrs.prompt_hash =
                      spans[r].security.attrs.prompt_hash
                /\ Len(CompletionLog(r)) = 1
                /\ SecurityAttrs(CompletionLog(r)[1]) = spans[r].security.attrs
                /\ CompletionLog(r)[1].prompt_preview =
                      analyze_security(input[r].message).prompt_preview
    /\ \A r \in Requests, q \in Requests :
          SecurityDone(r) /\ SecurityDone(q)
              /\ input[r].message = input[q].message =>
              local[r].security_result = local[q].security_result

C23_Step ==
    \A r \in Requests :
        /\ SecurityDone(r) =>
              /\ local'[r].security_result = local[r].security_result
              /\ spans'[r].security = spans[r].security
        /\ pc[r] = "Analyze" /\ pc'[r] # "Analyze" =>
              /\ app_metrics' =
                    Apply(app_metrics,
                          SecurityCalls(analyze_security(input[r].message)))
              /\ UNCHANGED <<app, env, gemini_client, loop, next_uuid, input,
                             logs, outcome, startup_log>>
              /\ \A q \in Requests \ {r} :
                    /\ local'[q] = local[q]
                    /\ spans'[q] = spans[q]
                    /\ calls'[q] = calls[q]
                    /\ pc'[q] = pc[q]

\* C23: the finding of a request is a function of its text alone, so two
\* requests with the same text have equal findings (flag, mapping, hash,
\* preview) in whatever state and order they are analysed; the analysis
\* changes nothing but the handler's own finding, span and increments; the
\* finding is not changed after SecurityCheck, and what a completed request
\* writes to the root span and to its completion record equals what it
\* wrote to security.check.
C23_Analyze == [](C23_State) /\ [][C23_Step]_vars

\* Two completed requests with the same text, with PII, analysed one after
\* the other.
C23_Witness ==
    \E r \in Requests, q \in Requests :
        /\ r # q
        /\ pc[r] = "Completed" /\ pc[q] = "Completed"
        /\ input[r].message = input[q].message
        /\ local[r].security_result.pii_detected
        /\ local[r].security_result = local[q].security_result
        /\ CompletionLog(q)[1].prompt_hash = spans[q].security.attrs.prompt_hash
        /\ Len(CompletionLog(q)[1].prompt_preview) = 27

====
